---- MODULE Spec2Model ----
(***************************************************************************)
(* Model of src/dashboard/app.py: the Streamlit dashboard over the topic   *)
(* mapping exports.  One render cycle is one top-to-bottom run of the      *)
(* script; it is modelled as one action per page (the value of the sidebar *)
(* radio), each doing the whole script: sidebar/manifest, table loading,   *)
(* the DocumentWithTopic join, the page's pathway and the footer.  An      *)
(* uncaught Python exception ends the run where it is raised.              *)
(*                                                                         *)
(* Text (labels, advisor names, the search query, option strings) is a     *)
(* sequence of one-character strings.  Probabilities and shares are        *)
(* integer percents.  Columns that are only carried to the screen (titulo, *)
(* url, keywords, anos_atuacao, temas_top) are left out of the rows.       *)
(***************************************************************************)
EXTENDS Integers, Sequences, FiniteSets, TLC

VARIABLES
    present,        \* the parquet files that exist in EXPORT
    files,          \* name -> content of the parquet file (a sequence of rows)
    manifestFile,   \* _manifest.json: [exists, parses, json]
    cache,          \* lru_cache of load_parquet: <<[name, value]>>, most recent last
    manifestCache,  \* lru_cache of load_manifest: <<>> or <<value>>
    reads,          \* name -> number of pl.read_parquet calls that returned
    acceptsCase,    \* whether the build's polars str.contains takes the keyword case
    out             \* what the last render cycle produced

vars == <<present, files, manifestFile, cache, manifestCache, reads, acceptsCase, out>>

----------------------------------------------------------------------------
(* Bounds of the model *)

MaxReads == 2
MaxRows == 2
MaxLabelLen == 2
MaxQueryLen == 1

(* Program constants *)

ParquetMaxSize == 8
MaxSelections == 6
TopN == 10
OutlierTopic == -1

(* A null cell of an integer column *)
NULL == -99

(* A null cell of a text column (the label of an unmatched left join) *)
NullText == <<"<null>">>

DocsFile == "docs.parquet"
TopicsCurrentFile == "topics_current.parquet"
TopicsFile == "topics.parquet"
DocTopicsFile == "doc_topics.parquet"
TrendsFile == "topic_trends.parquet"
AdvisorProfilesFile == "advisor_profiles.parquet"
AdvisorTopicsFile == "advisor_topics.parquet"

Names ==
    {DocsFile, TopicsCurrentFile, TopicsFile, DocTopicsFile, TrendsFile,
     AdvisorProfilesFile, AdvisorTopicsFile}

Pages ==
    <<"Visao geral", "Pesquisar orientadores", "Filtrar TCCs por tema",
      "Perfil do orientador", "Evolucao de temas">>

----------------------------------------------------------------------------
(* Sequences as dataframes *)

Range(s) == {s[i] : i \in 1..Len(s)}

\* lexicographic order of two key tuples (a prefix comes first)
RECURSIVE LexLeq(_, _)
LexLeq(a, b) ==
    \/ a = <<>>
    \/ /\ b # <<>>
       /\ \/ Head(a) < Head(b)
          \/ Head(a) = Head(b) /\ LexLeq(Tail(a), Tail(b))

\* row i comes before row j: by key, and by position among equal keys (by
\* reversed position when rev)
Before(keys, i, j, rev) ==
    IF keys[i] = keys[j] THEN (IF rev THEN i >= j ELSE i <= j)
    ELSE LexLeq(keys[i], keys[j])

RECURSIVE SortRows(_, _, _, _)
\* the rows of s at the positions in S, ordered by their keys
SortRows(s, keys, S, rev) ==
    IF S = {} THEN <<>>
    ELSE LET m == CHOOSE i \in S : \A j \in S : Before(keys, i, j, rev)
         IN  <<s[m]>> \o SortRows(s, keys, S \ {m}, rev)

\* DataFrame.sort (maintain_order=False) by the key tuples keys[i] of the rows
\* s[i]: the rows ordered by the key.  The order of rows with equal keys is
\* not fixed by polars; the model keeps two outcomes, equal keys in the order
\* of the input and in its reverse.  A descending column is keyed by its
\* negation; NULL is below every value (nulls come first).
Sorted(s, keys) ==
    {SortRows(s, keys, 1..Len(s), rev) : rev \in BOOLEAN}

\* DataFrame.head(n)
HeadN(s, n) == SubSeq(s, 1, IF Len(s) < n THEN Len(s) ELSE n)

SetMin(S) == CHOOSE x \in S : \A y \in S : x <= y
SetMax(S) == CHOOSE x \in S : \A y \in S : x >= y

----------------------------------------------------------------------------
(* Text *)

Digits == <<"0", "1", "2", "3", "4", "5", "6", "7", "8", "9">>

DigitVal(c) == CHOOSE d \in 0..9 : Digits[d + 1] = c

IsDigit(c) == \E d \in 0..9 : Digits[d + 1] = c

RECURSIVE NatToStr(_)
NatToStr(n) ==
    IF n < 10 THEN <<Digits[n + 1]>>
    ELSE NatToStr(n \div 10) \o <<Digits[(n % 10) + 1]>>

\* str(t) of a Python int, as f"{t}" and cast(pl.Utf8) write it
IntToStr(t) == IF t < 0 THEN <<"-">> \o NatToStr(-t) ELSE NatToStr(t)

\* f"[{t}] {l}" and pl.lit("[") + topic.cast(Utf8) + pl.lit("] ") + label
FmtTopicLabel(t, lab) == <<"[">> \o IntToStr(t) \o <<"]", " ">> \o lab

IndexOf(s, c) ==
    IF \E i \in 1..Len(s) : s[i] = c
    THEN SetMin({i \in 1..Len(s) : s[i] = c})
    ELSE 0

\* a decoder that cuts at the last "]" instead: str.rsplit("]", 1)[0]
SplitLast(s) ==
    IF IndexOf(s, "]") = 0 THEN s
    ELSE SubSeq(s, 1, SetMax({i \in 1..Len(s) : s[i] = "]"}) - 1)

\* str.split("]")[0]: the text before the first "]", all of it when there is none
SplitFirst(s) ==
    IF IndexOf(s, "]") = 0 THEN s ELSE SubSeq(s, 1, IndexOf(s, "]") - 1)

RECURSIVE LStrip(_, _)
LStrip(s, c) == IF s # <<>> /\ Head(s) = c THEN LStrip(Tail(s), c) ELSE s

RECURSIVE RStrip(_, _)
RStrip(s, c) ==
    IF s # <<>> /\ s[Len(s)] = c THEN RStrip(SubSeq(s, 1, Len(s) - 1), c) ELSE s

\* str.strip(c): c removed from both ends
Strip(s, c) == RStrip(LStrip(s, c), c)

RECURSIVE DigitsVal(_)
DigitsVal(s) ==
    IF s = <<>> THEN 0 ELSE 10 * DigitsVal(SubSeq(s, 1, Len(s) - 1)) + DigitVal(s[Len(s)])

\* int(s): surrounding blanks dropped, an optional sign, then digits only;
\* anything else is a ValueError
ParseInt(s) ==
    LET u == Strip(s, " ")
        neg == u # <<>> /\ Head(u) = "-"
        body == IF u # <<>> /\ Head(u) \in {"-", "+"} THEN Tail(u) ELSE u
    IN  IF body # <<>> /\ \A i \in 1..Len(body) : IsDigit(body[i])
        THEN [ok |-> TRUE, val |-> IF neg THEN -DigitsVal(body) ELSE DigitsVal(body)]
        ELSE [ok |-> FALSE, val |-> 0]

\* int(choice.split("]")[0].strip("["))
DecodeFilter(choice) == ParseInt(Strip(SplitFirst(choice), "["))

\* int(p.split("]")[0][1:])
DecodeEvolution(p) ==
    ParseInt(IF SplitFirst(p) = <<>> THEN <<>> ELSE Tail(SplitFirst(p)))

Lower(c) == IF c = "A" THEN "a" ELSE IF c = "N" THEN "n" ELSE IF c = "B" THEN "b" ELSE c

\* one pattern character against one text character: "." matches any
\* character, a letter matches itself in either case
CharMatches(pc, c) == pc = "." \/ Lower(pc) = Lower(c)

\* str.contains(q, literal=False, case=False) for a pattern of letters,
\* blanks and ".": the pattern matches somewhere in the name
RegexContains(name, q) ==
    \E i \in 0..(Len(name) - Len(q)) :
        \A j \in 1..Len(q) : CharMatches(q[j], name[i + j])

\* the code point of a character of the model's alphabet
CharCode(c) ==
    CASE c = " " -> 32 [] c = "-" -> 45 [] c = "." -> 46
      [] c = "A" -> 65 [] c = "B" -> 66 [] c = "N" -> 78
      [] c = "[" -> 91 [] c = "]" -> 93
      [] c = "a" -> 97 [] c = "b" -> 98 [] c = "n" -> 110 [] c = "o" -> 111
      [] OTHER -> 48 + DigitVal(c)

\* the sort key of a text cell: its code points
TextKey(s) == [i \in 1..Len(s) |-> CharCode(s[i])]

\* q.strip(): the query without its leading and trailing blanks
QStrip(q) == Strip(q, " ")

\* the placeholder dash
Dash == "-"

\* f"{100.0 * float(x):.1f}%" of the fraction num/den, the dash when float(x)
\* raises (x is None or no number).  x is [kind, num, den].
HumanPct(x) ==
    IF x.kind = "num"
    THEN LET tenths == (2000 * x.num + x.den) \div (2 * x.den)
         IN  ToString(tenths \div 10) \o "." \o ToString(tenths % 10) \o "%"
    ELSE Dash

----------------------------------------------------------------------------
(* Data loaders *)

CacheIndex(c, name) ==
    IF \E i \in 1..Len(c) : c[i].name = name
    THEN CHOOSE i \in 1..Len(c) : c[i].name = name
    ELSE 0

\* the cache after a miss on name was filled with value: the least recently
\* used entry leaves when the cache is full
CacheInsert(c, name, value) ==
    (IF Len(c) >= ParquetMaxSize THEN Tail(c) ELSE c) \o <<[name |-> name, value |-> value]>>

\* the cache after a hit on its entry i: the entry becomes the most recent
CacheTouch(c, i) ==
    SubSeq(c, 1, i - 1) \o SubSeq(c, i + 1, Len(c)) \o <<c[i]>>

\* load_parquet without its lru_cache: every call reads the file
LoadParquetUncached(c, r, name) ==
    IF name \notin present
    THEN [ok |-> FALSE, value |-> <<>>, cache |-> c, reads |-> r]
    ELSE [ok |-> TRUE, value |-> files[name], cache |-> c,
          reads |-> [r EXCEPT ![name] = @ + 1]]

\* @lru_cache(maxsize=8) load_parquet(name), called with cache c and read
\* counts r: [ok, value, cache, reads].  A missing file makes
\* pl.read_parquet raise; nothing is cached then.
LoadParquet(c, r, name) ==
    IF CacheIndex(c, name) # 0
    THEN [ok |-> TRUE, value |-> c[CacheIndex(c, name)].value,
          cache |-> CacheTouch(c, CacheIndex(c, name)), reads |-> r]
    ELSE IF name \notin present
    THEN [ok |-> FALSE, value |-> <<>>, cache |-> c, reads |-> r]
    ELSE [ok |-> TRUE, value |-> files[name],
          cache |-> CacheInsert(c, name, files[name]),
          reads |-> [r EXCEPT ![name] = @ + 1]]

\* topics_table(): the name it loads
TopicsTableName ==
    IF TopicsCurrentFile \in present THEN TopicsCurrentFile ELSE TopicsFile

\* the six loads of the script, in its order
LoadOrder ==
    <<DocsFile, TopicsTableName, DocTopicsFile, TrendsFile, AdvisorProfilesFile,
      AdvisorTopicsFile>>

RECURSIVE LoadFrom(_, _, _, _)
\* the loads from the k-th on: [ok, cache, reads, tables]; the first load that
\* raises ends the script
LoadFrom(k, c, r, tables) ==
    IF k > Len(LoadOrder) THEN [ok |-> TRUE, cache |-> c, reads |-> r, tables |-> tables]
    ELSE LET res == LoadParquet(c, r, LoadOrder[k])
         IN  IF ~res.ok
             THEN [ok |-> FALSE, cache |-> res.cache, reads |-> res.reads, tables |-> tables]
             ELSE LoadFrom(k + 1, res.cache, res.reads, Append(tables, res.value))

\* docs, topics, doc_topics, trends, advisor_profiles, advisor_topics
LoadTables ==
    LET res == LoadFrom(1, cache, reads, <<>>)
    IN  IF ~res.ok
        THEN [ok |-> FALSE, cache |-> res.cache, reads |-> res.reads,
              docs |-> <<>>, topics |-> <<>>, doc_topics |-> <<>>, trends |-> <<>>,
              advisor_profiles |-> <<>>, advisor_topics |-> <<>>]
        ELSE [ok |-> TRUE, cache |-> res.cache, reads |-> res.reads,
              docs |-> res.tables[1], topics |-> res.tables[2],
              doc_topics |-> res.tables[3], trends |-> res.tables[4],
              advisor_profiles |-> res.tables[5], advisor_topics |-> res.tables[6]]

EmptyDict == [k \in {} |-> ""]

\* the body of load_manifest: the parsed file, {} when it is absent or
\* json.loads raises
ReadManifest ==
    IF manifestFile.exists /\ manifestFile.parses THEN manifestFile.json ELSE EmptyDict

\* @lru_cache(maxsize=1) load_manifest(): [value, cache]
LoadManifest ==
    IF manifestCache # <<>>
    THEN [value |-> manifestCache[1], cache |-> manifestCache]
    ELSE [value |-> ReadManifest, cache |-> <<ReadManifest>>]

----------------------------------------------------------------------------
(* Sidebar *)

\* dict.get(k, d)
Get(d, k, default) == IF k \in DOMAIN d THEN d[k] ELSE default

NoValue == [kind |-> "none", num |-> 0, den |-> 1]

SelectionLines(sel) ==
    [k \in {"method", "run", "trial", "K", "reported_outliers_pct"} |->
        IF k = "reported_outliers_pct"
        THEN HumanPct(Get(sel, k, NoValue))
        ELSE Get(sel, k, Dash)]

CorpusLines(corp) ==
    [k \in {"n_docs", "years.min", "years.max"} |->
        IF k = "n_docs" THEN Get(corp, "n_docs", Dash)
        ELSE IF k = "years.min" THEN Get(Get(corp, "years", EmptyDict), "min", Dash)
        ELSE Get(Get(corp, "years", EmptyDict), "max", Dash)]

\* the expander without the test "if sel:": the selection lines always written
SidebarAlwaysSelection(manifest) ==
    IF DOMAIN manifest # {}
    THEN [found |-> TRUE,
          lines |-> [k \in {"generated_at"} |-> Get(manifest, "generated_at", Dash)]
                    @@ SelectionLines(Get(manifest, "selection", EmptyDict))
                    @@ CorpusLines(Get(manifest, "corpus", EmptyDict))]
    ELSE [found |-> FALSE, lines |-> EmptyDict]

\* the "Artefatos & Execucao" expander: [found, lines], lines the text shown
\* for each manifest field it writes
Sidebar(manifest) ==
    IF DOMAIN manifest # {}
    THEN LET sel == Get(manifest, "selection", EmptyDict)
             corp == Get(manifest, "corpus", EmptyDict)
         IN  [found |-> TRUE,
              lines |-> [k \in {"generated_at"} |-> Get(manifest, "generated_at", Dash)]
                        @@ (IF DOMAIN sel # {} THEN SelectionLines(sel) ELSE EmptyDict)
                        @@ CorpusLines(corp)]
    ELSE [found |-> FALSE, lines |-> EmptyDict]

----------------------------------------------------------------------------
(* Joins *)

\* the rows of right that match row l of left on key; a null key matches nothing
Matches(l, right, key) ==
    SelectSeq(right, LAMBDA r : l[key] # NULL /\ r[key] = l[key])

RECURSIVE MergeAll(_, _)
\* row l with the columns of each row of ms
MergeAll(l, ms) ==
    IF ms = <<>> THEN <<>> ELSE <<l @@ Head(ms)>> \o MergeAll(l, Tail(ms))

RECURSIVE InnerJoin(_, _, _)
\* left.join(right, on=key, how="inner")
InnerJoin(left, right, key) ==
    IF left = <<>> THEN <<>>
    ELSE MergeAll(Head(left), Matches(Head(left), right, key))
         \o InnerJoin(Tail(left), right, key)

RECURSIVE LeftJoin(_, _, _, _)
\* left.join(right, on=key, how="left"): a row without a match is kept once,
\* with the columns of right null
LeftJoin(left, right, key, nulls) ==
    IF left = <<>> THEN <<>>
    ELSE (IF Matches(Head(left), right, key) = <<>>
          THEN <<Head(left) @@ nulls>>
          ELSE MergeAll(Head(left), Matches(Head(left), right, key)))
         \o LeftJoin(Tail(left), right, key, nulls)

NullLabel == [label |-> NullText]

RECURSIVE TopicLabels(_)
\* topics.select(["topic", "label"])
TopicLabels(topics) ==
    IF topics = <<>> THEN <<>>
    ELSE <<[topic |-> Head(topics).topic, label |-> Head(topics).label]>>
         \o TopicLabels(Tail(topics))

\* the view with both joins inner: a row without a Topic row is dropped
DocWithTopicInner(docs, doc_topics, topics) ==
    InnerJoin(InnerJoin(doc_topics, docs, "DOC_ID"), TopicLabels(topics), "topic")

\* doc_topics.join(docs, on="DOC_ID", how="inner")
\*           .join(topics.select(["topic","label"]), on="topic", how="left")
DocWithTopic(docs, doc_topics, topics) ==
    LeftJoin(InnerJoin(doc_topics, docs, "DOC_ID"), TopicLabels(topics), "topic", NullLabel)

----------------------------------------------------------------------------
(* The page pathways.  Each gives the set of results the pathway can produce *)
(* (a sort leaves the order of equal keys open): [error, view], error "" for *)
(* a pathway that ran to its end, else the exception that ended the script.  *)

RECURSIVE SetToSeq(_)
\* the integers of S in ascending order
SetToSeq(S) == IF S = {} THEN <<>> ELSE <<SetMin(S)>> \o SetToSeq(S \ {SetMin(S)})

RECURSIVE SumCol(_, _)
SumCol(s, col) == IF s = <<>> THEN 0 ELSE Head(s)[col] + SumCol(Tail(s), col)

\* the values of column col
Column(s, col) == {s[i][col] : i \in 1..Len(s)}

\* docs["ano"].drop_nulls()
Years(docs) == Column(docs, "ano") \ {NULL}

\* f"{int(yrs.min())}-{int(yrs.max())}" if yrs.len() else the dash
Period(docs) ==
    IF Years(docs) # {}
    THEN ToString(SetMin(Years(docs))) \o Dash \o ToString(SetMax(Years(docs)))
    ELSE Dash

\* the "Temas (sem -1)" metric: f"{topics.height}"
TopicCount(topics) == Len(topics)

\* doc_topics.filter(pl.col("topic") == -1).height
OutCount(doc_topics) ==
    Len(SelectSeq(doc_topics, LAMBDA r : r.topic = OutlierTopic))

\* the group of topic t: its mean share, kept as the sum and the number of
\* its rows, and the sum of its n_docs
TrendGroup(trends, t) ==
    LET rows == SelectSeq(trends, LAMBDA r : r.topic = t)
    IN  [topic |-> t, share_sum |-> SumCol(rows, "share"), share_n |-> Len(rows),
         n_total |-> SumCol(rows, "n_docs")]

RECURSIVE TrendGroupsOf(_, _)
TrendGroupsOf(trends, ts) ==
    IF ts = <<>> THEN <<>>
    ELSE <<TrendGroup(trends, Head(ts))>> \o TrendGroupsOf(trends, Tail(ts))

\* trends.group_by("topic").agg(share.mean(), n_docs.sum()): one row per topic
TrendGroups(trends) == TrendGroupsOf(trends, SetToSeq(Column(trends, "topic")))

\* the key of sort("share_medio", descending=True); 60 is a multiple of every
\* group size up to 6, so the scaled mean is exact
ShareKey(g) == <<-((60 * g.share_sum) \div g.share_n)>>

\* group, join the labels, sort by mean share descending, head(10)
TopShare(trends, topics) ==
    LET joined == LeftJoin(TrendGroups(trends), TopicLabels(topics), "topic", NullLabel)
    IN  {HeadN(t, TopN) : t \in Sorted(joined, [i \in 1..Len(joined) |-> ShareKey(joined[i])])}

RECURSIVE YearCounts(_, _)
YearCounts(docs, ys) ==
    IF ys = <<>> THEN <<>>
    ELSE <<[ano |-> Head(ys),
            n_docs |-> Len(SelectSeq(docs, LAMBDA r : r.ano = Head(ys)))]>>
         \o YearCounts(docs, Tail(ys))

\* docs.group_by("ano").agg(pl.len()).sort("ano")
ByYear(docs) == YearCounts(docs, SetToSeq(Column(docs, "ano")))

\* 1) Visao geral.  out_count / docs.height is evaluated before human_pct is
\* entered: with no documents it raises ZeroDivisionError, after the first
\* three metrics were written.
Overview(t) ==
    IF Len(t.docs) = 0
    THEN {[error |-> "ZeroDivisionError",
           view |-> [total |-> Len(t.docs), period |-> Period(t.docs),
                     temas |-> TopicCount(t.topics)]]}
    ELSE {[error |-> "",
           view |-> [total |-> Len(t.docs), period |-> Period(t.docs),
                     temas |-> TopicCount(t.topics),
                     out_count |-> OutCount(t.doc_topics),
                     outliers |-> HumanPct([kind |-> "num", num |-> OutCount(t.doc_topics),
                                            den |-> Len(t.docs)]),
                     top_share |-> ts, by_year |-> ByYear(t.docs)]] :
            ts \in TopShare(t.trends, t.topics)}

\* the rows of advisor_profiles the search keeps: all of them when q.strip()
\* is empty, else those whose name matches q (q itself, not q.strip())
SearchBase(profiles, q) ==
    IF QStrip(q) # <<>>
    THEN SelectSeq(profiles, LAMBDA r : RegexContains(r.orientador_nome, q))
    ELSE profiles

\* 2) Pesquisar orientadores.  polars' str.contains takes (pattern, literal,
\* strict); a build whose polars rejects the keyword case raises TypeError
\* when the filter expression is built.
SearchAdvisors(t, q) ==
    IF QStrip(q) # <<>> /\ ~acceptsCase
    THEN {[error |-> "TypeError", view |-> [q |-> q]]}
    ELSE LET base == SearchBase(t.advisor_profiles, q)
         IN  {[error |-> "",
               view |-> [q |-> q, count |-> Len(base), table |-> tb]] :
                tb \in Sorted(base, [i \in 1..Len(base) |-> <<-base[i].n_tccs>>])}

\* the keys of a sort with both columns ascending
YearProbKeysAscending(rows) == [i \in 1..Len(rows) |-> <<rows[i].ano, rows[i].prob>>]

\* sort(["ano","prob"], descending=[False, True])
YearProbKeys(rows) == [i \in 1..Len(rows) |-> <<rows[i].ano, -rows[i].prob>>]

RECURSIVE Displays(_)
\* the options of the topic widgets: the rows with their display strings
Displays(rows) ==
    IF rows = <<>> THEN <<>>
    ELSE <<[topic |-> Head(rows).topic,
            display |-> FmtTopicLabel(Head(rows).topic, Head(rows).label)]>>
         \o Displays(Tail(rows))

\* topics.sort("topic") and the display strings of its rows
TopicOptions(topics) ==
    {Displays(srt) : srt \in Sorted(topics, [i \in 1..Len(topics) |-> <<topics[i].topic>>])}

\* the pathway of page 3 for the options opts
FilterChoice(t, dwt, opts, choice) ==
    LET sel == DecodeFilter(opts[choice].display)
        rows == SelectSeq(dwt, LAMBDA r : r.topic = sel.val)
        tr == SelectSeq(t.trends, LAMBDA r : r.topic = sel.val)
    IN  IF ~sel.ok
        THEN {[error |-> "ValueError", view |-> [options |-> opts]]}
        ELSE {[error |-> "",
               view |-> [options |-> opts, choice |-> choice,
                         sel_topic |-> sel.val, subset |-> sub, t_trend |-> tt,
                         shown |-> IF tt # <<>> THEN "chart" ELSE "info"]] :
                sub \in Sorted(rows, YearProbKeys(rows)),
                tt \in Sorted(tr, [i \in 1..Len(tr) |-> <<tr[i].ano>>])}

\* 3) Filtrar TCCs por tema, the user's choice being option number choice
\* (the selectbox gives None when there is no option, and None.split raises)
FilterByTopic(t, dwt, choice) ==
    UNION {
        IF Len(opts) = 0
        THEN {[error |-> "AttributeError", view |-> [options |-> opts]]}
        ELSE IF choice \notin 1..Len(opts) THEN {}
        ELSE FilterChoice(t, dwt, opts, choice)
        : opts \in TopicOptions(t.topics)}

\* advisor_profiles.filter(orientador_nome == choice).select("orientador_id")
\* .item(): the id of the only matching row; item() raises ValueError unless
\* the frame is 1 x 1
ResolveAdvisor(profiles, name) ==
    LET hits == SelectSeq(profiles, LAMBDA r : r.orientador_nome = name)
    IN  IF Len(hits) = 1 THEN [ok |-> TRUE, oid |-> hits[1].orientador_id]
        ELSE [ok |-> FALSE, oid |-> NULL]

\* the pathway of page 4 for the advisor called name
ProfileChoice(t, dwt, name) ==
    LET res == ResolveAdvisor(t.advisor_profiles, name)
        same == SelectSeq(t.advisor_profiles, LAMBDA r : r.orientador_id = res.oid)
        rows == SelectSeq(dwt, LAMBDA r : r.orientador_id = res.oid)
        dj == LeftJoin(SelectSeq(t.advisor_topics, LAMBDA r : r.orientador_id = res.oid),
                       TopicLabels(t.topics), "topic", NullLabel)
    IN  IF ~res.ok
        THEN {[error |-> "ValueError", view |-> [choice |-> name]]}
        ELSE {[error |-> "",
               view |-> [choice |-> name, oid |-> res.oid, perfil |-> same[1],
                         tccs |-> tc, dist |-> di,
                         shown |-> IF di # <<>> THEN "chart" ELSE "info"]] :
                tc \in Sorted(rows, YearProbKeys(rows)),
                di \in Sorted(dj, [i \in 1..Len(dj) |-> <<-dj[i].n_docs>>])}

\* 4) Perfil do orientador, the user's choice being option number choice of
\* the names sorted
AdvisorProfile(t, dwt, choice) ==
    UNION {
        IF Len(opts) = 0
        THEN {[error |-> "", view |-> [shown |-> "warning"]]}
        ELSE IF choice \notin 1..Len(opts) THEN {}
        ELSE ProfileChoice(t, dwt, opts[choice].orientador_nome)
        : opts \in Sorted(t.advisor_profiles,
                     [i \in 1..Len(t.advisor_profiles) |->
                        TextKey(t.advisor_profiles[i].orientador_nome)])}

\* the pathway of page 5 for the picked options ps of opts
EvolutionPicks(t, opts, ps) ==
    LET dec == [k \in 1..Len(ps) |-> DecodeEvolution(opts[ps[k]].display)]
        sel == {dec[k].val : k \in 1..Len(ps)}
        rows == LeftJoin(SelectSeq(t.trends, LAMBDA r : r.topic \in sel),
                         TopicLabels(t.topics), "topic", NullLabel)
    IN  IF \E k \in 1..Len(ps) : ~dec[k].ok
        THEN {[error |-> "ValueError", view |-> [options |-> opts, picks |-> ps]]}
        ELSE {[error |-> "",
               view |-> [options |-> opts, picks |-> ps,
                         sel_topics |-> [k \in 1..Len(ps) |-> dec[k].val],
                         sub |-> sb, shown |-> "chart"]] :
                sb \in Sorted(rows, [i \in 1..Len(rows) |-> <<rows[i].topic, rows[i].ano>>])}

\* 5) Evolucao de temas, the user's picks being the option numbers picks (at
\* most max_selections of them)
TopicEvolution(t, picks) ==
    UNION {
        IF ~(picks \subseteq 1..Len(opts)) \/ Cardinality(picks) > MaxSelections THEN {}
        ELSE IF picks = {}
        THEN {[error |-> "", view |-> [options |-> opts, picks |-> <<>>, shown |-> "info"]]}
        ELSE EvolutionPicks(t, opts, SetToSeq(picks))
        : opts \in TopicOptions(t.topics)}

----------------------------------------------------------------------------
(* The render cycle *)

\* the if / elif chain over page: the numbers of the branches whose body runs
Dispatch(page) ==
    IF page = Pages[1] THEN <<1>>
    ELSE IF page = Pages[2] THEN <<2>>
    ELSE IF page = Pages[3] THEN <<3>>
    ELSE IF page = Pages[4] THEN <<4>>
    ELSE IF page = Pages[5] THEN <<5>>
    ELSE <<>>

\* what branch k can produce from the loaded tables t, the join dwt and the
\* widget values in
Pathway(k, t, dwt, in) ==
    CASE k = 1 -> Overview(t)
      [] k = 2 -> SearchAdvisors(t, in.q)
      [] k = 3 -> FilterByTopic(t, dwt, in.choice)
      [] k = 4 -> AdvisorProfile(t, dwt, in.choice)
      [] k = 5 -> TopicEvolution(t, in.picks)

NoInput == [q |-> <<>>, choice |-> 1, picks |-> {}]

NoOutput ==
    [page |-> "", stages |-> <<>>, error |-> "",
     sidebar |-> [found |-> FALSE, lines |-> EmptyDict], dwt |-> <<>>,
     view |-> EmptyDict]

\* what the run leaves on the screen once the tables t are loaded
Outputs(page, in, m, t) ==
    IF ~t.ok
    THEN {[NoOutput EXCEPT !.page = page,
                           !.stages = <<"sidebar", "load">>,
                           !.error = "FileNotFoundError",
                           !.sidebar = Sidebar(m.value)]}
    ELSE LET dwt == DocWithTopic(t.docs, t.doc_topics, t.topics)
             run == Dispatch(page)
         IN  IF run = <<>>
             THEN {[NoOutput EXCEPT !.page = page,
                                    !.stages = <<"sidebar", "load", "join", "footer">>,
                                    !.sidebar = Sidebar(m.value),
                                    !.dwt = dwt]}
             ELSE {[page |-> page,
                    stages |-> <<"sidebar", "load", "join">>
                               \o [k \in 1..Len(run) |-> Pages[run[k]]]
                               \o (IF r.error = "" THEN <<"footer">> ELSE <<>>),
                    error |-> r.error,
                    sidebar |-> Sidebar(m.value),
                    dwt |-> dwt,
                    view |-> r.view] : r \in Pathway(run[1], t, dwt, in)}

\* One run of the script with the radio at page and the page's widgets at in:
\* the manifest (line 70), the six tables (87-96), the join (98-101), the
\* page's branch (106-252) and the footer (257-258).
Render(page, in) ==
    /\ \A n \in Names : reads[n] <= MaxReads
    /\ \E m \in {LoadManifest}, t \in {LoadTables} :
          /\ manifestCache' = m.cache
          /\ cache' = t.cache
          /\ reads' = t.reads
          /\ out' \in Outputs(page, in, m, t)
    /\ UNCHANGED <<present, files, manifestFile, acceptsCase>>

RenderOverview == Render(Pages[1], NoInput)

\* the queries a user types: letters, blanks and "."
QueryChars == {"a", "N", ".", " "}

Texts(chars, n) == UNION {[1..k -> chars] : k \in 0..n}

RenderSearch ==
    \E q \in Texts(QueryChars, MaxQueryLen) : Render(Pages[2], [NoInput EXCEPT !.q = q])

RenderFilter ==
    \E c \in 1..MaxRows : Render(Pages[3], [NoInput EXCEPT !.choice = c])

RenderProfile ==
    \E c \in 1..MaxRows : Render(Pages[4], [NoInput EXCEPT !.choice = c])

RenderEvolution ==
    \E ps \in SUBSET (1..MaxRows) : Render(Pages[5], [NoInput EXCEPT !.picks = ps])

----------------------------------------------------------------------------
(* The export directory *)

\* tables of at most n rows
Tables(rows, n) == UNION {[1..k -> rows] : k \in 0..n}

Doc(d, a, o) == [DOC_ID |-> d, ano |-> a, orientador_id |-> o]

Topic(t, lab) == [topic |-> t, label |-> lab]

Profile(o, name, n) == [orientador_id |-> o, orientador_nome |-> name, n_tccs |-> n]

SampleDocs == <<Doc(1, 2020, 1), Doc(2, 2021, 2)>>

SampleTopics == <<Topic(-1, <<"a">>), Topic(0, <<"b">>)>>

SampleDocTopics ==
    <<[DOC_ID |-> 1, topic |-> 0, prob |-> 70], [DOC_ID |-> 2, topic |-> -1, prob |-> 30]>>

SampleTrends ==
    <<[topic |-> 0, ano |-> 2020, share |-> 50, n_docs |-> 1]>>

SampleProfiles == <<Profile(1, <<"A", "n", "a">>, 1), Profile(2, <<"B", "o">>, 2)>>

SampleAdvisorTopics ==
    <<[orientador_id |-> 1, topic |-> 0, n_docs |-> 1]>>

\* the export directory holding the given tables
Export(docs, topics, doc_topics, trends, profiles, advisor_topics) ==
    [n \in Names |->
        CASE n = DocsFile -> docs
          [] n = TopicsCurrentFile -> topics
          [] n = TopicsFile -> topics
          [] n = DocTopicsFile -> doc_topics
          [] n = TrendsFile -> trends
          [] n = AdvisorProfilesFile -> profiles
          [] n = AdvisorTopicsFile -> advisor_topics]

SampleExport ==
    Export(SampleDocs, SampleTopics, SampleDocTopics, SampleTrends, SampleProfiles,
           SampleAdvisorTopics)

\* what the pipeline writes when it publishes a file again
Republished ==
    Export(<<Doc(1, 2020, 1)>>, <<Topic(0, <<"b">>), Topic(1, <<"n">>)>>,
           <<[DOC_ID |-> 1, topic |-> 0, prob |-> 30]>>, <<>>,
           <<Profile(1, <<"A", "n", "a">>, 2)>>, <<>>)

NoManifest == [exists |-> FALSE, parses |-> FALSE, json |-> EmptyDict]

\* a process that has rendered nothing yet
Fresh ==
    /\ cache = <<>>
    /\ manifestCache = <<>>
    /\ reads = [n \in Names |-> 0]
    /\ out = NoOutput

\* the export directory differs from the sample in file n at most
OnlyChanged(n) ==
    \A m \in Names \ {n} : files[m] = SampleExport[m] /\ (m \in present \/ m = TopicsCurrentFile)

\* the pipeline publishes file n again, with other content (once)
Republish ==
    \E n \in Names :
        /\ OnlyChanged(n)
        /\ n \in present
        /\ files[n] = SampleExport[n]
        /\ files' = [files EXCEPT ![n] = Republished[n]]
        /\ UNCHANGED <<present, manifestFile, cache, manifestCache, reads, acceptsCase, out>>

\* file n leaves the export directory
Remove ==
    \E n \in Names :
        /\ OnlyChanged(n)
        /\ n \in present
        /\ present' = present \ {n}
        /\ UNCHANGED <<files, manifestFile, cache, manifestCache, reads, acceptsCase, out>>

\* file n comes (back) to the export directory
Publish ==
    \E n \in Names :
        /\ OnlyChanged(n)
        /\ n \notin present
        /\ present' = present \cup {n}
        /\ UNCHANGED <<files, manifestFile, cache, manifestCache, reads, acceptsCase, out>>

----------------------------------------------------------------------------
(* The process over a changing export directory *)

Init ==
    /\ Fresh
    /\ present \in {Names, Names \ {TopicsCurrentFile}}
    /\ files = SampleExport
    /\ manifestFile = NoManifest
    /\ acceptsCase = TRUE

Next ==
    \/ RenderOverview
    \/ RenderSearch
    \/ RenderFilter
    \/ RenderProfile
    \/ RenderEvolution
    \/ Republish
    \/ Remove
    \/ Publish

Spec == Init /\ [][Next]_vars

----------------------------------------------------------------------------
(* The exports the page specifications draw from *)

DocTopicRows ==
    {[DOC_ID |-> d, topic |-> tp[1], prob |-> tp[2]] :
        d \in {1, 2}, tp \in {<<0, 30>>, <<-1, 30>>, <<-1, 70>>}}

DocsTables ==
    {<<>>, <<Doc(1, 2020, 1)>>, <<Doc(1, NULL, 1)>>,
     <<Doc(1, 2020, 1), Doc(2, 2021, 2)>>, <<Doc(2, 2021, 2), Doc(1, 2020, 1)>>,
     <<Doc(1, 2020, 1), Doc(2, 2020, 1)>>, <<Doc(1, 2020, 1), Doc(1, 2021, 2)>>}

TopicsTables ==
    {<<>>, <<Topic(0, <<"b">>)>>,
     <<Topic(-1, <<"a">>), Topic(0, <<"b">>)>>, <<Topic(0, <<"b">>), Topic(-1, <<"a">>)>>,
     <<Topic(0, <<"b">>), Topic(0, <<"n">>)>>}

TrendTables ==
    {<<>>, SampleTrends,
     <<[topic |-> 0, ano |-> 2021, share |-> 30, n_docs |-> 6],
       [topic |-> 0, ano |-> 2020, share |-> 20, n_docs |-> 4]>>}

ProfileRows ==
    {Profile(o, name, n) : o \in {1, 2}, name \in {<<"A", "n", "a">>, <<"a", "n">>},
                           n \in {1, 2}}

AdvisorTopicTables ==
    {<<>>, SampleAdvisorTopics,
     <<[orientador_id |-> 2, topic |-> 5, n_docs |-> 1],
       [orientador_id |-> 2, topic |-> 0, n_docs |-> 2]>>}

\* only the table files vary
TablesOnly ==
    /\ Fresh
    /\ present = Names \ {TopicsCurrentFile}
    /\ manifestFile = NoManifest

(* Overview: documents, topics, assignments and trends vary *)

InitOverview ==
    /\ TablesOnly
    /\ acceptsCase = TRUE
    /\ \E docs \in DocsTables, tps \in TopicsTables, dts \in Tables(DocTopicRows, MaxRows),
          trs \in TrendTables :
          files = Export(docs, tps, dts, trs, SampleProfiles, SampleAdvisorTopics)

NextOverview == RenderOverview

SpecOverview == InitOverview /\ [][NextOverview]_vars

(* Filter by topic and the join: documents, assignments, topics and trends vary *)

InitFilter ==
    /\ TablesOnly
    /\ acceptsCase = TRUE
    /\ \E docs \in DocsTables, tps \in TopicsTables, dts \in Tables(DocTopicRows, MaxRows),
          trs \in {<<>>, SampleTrends} :
          files = Export(docs, tps, dts, trs, SampleProfiles, SampleAdvisorTopics)

NextFilter == RenderFilter

SpecFilter == InitFilter /\ [][NextFilter]_vars

(* Advisors: the profiles, the advisor topics and the build vary *)

InitAdvisors ==
    /\ TablesOnly
    /\ acceptsCase \in BOOLEAN
    /\ \E prs \in Tables(ProfileRows, MaxRows), ats \in AdvisorTopicTables :
          files = Export(SampleDocs, SampleTopics, SampleDocTopics, SampleTrends, prs, ats)

NextAdvisors == RenderSearch \/ RenderProfile

SpecAdvisors == InitAdvisors /\ [][NextAdvisors]_vars

(* Label decoding: the topic ids and the label texts vary *)

LabelChars == {"a", "[", "]", " ", "1", "-"}

TopicIds == {-1, 0, 12}

InitDecode ==
    /\ TablesOnly
    /\ acceptsCase = TRUE
    /\ \E t \in TopicIds, lab \in Texts(LabelChars, MaxLabelLen),
          more \in {<<>>, <<Topic(3, <<"a">>)>>} :
          files = Export(SampleDocs, <<Topic(t, lab)>> \o more, SampleDocTopics,
                         SampleTrends, SampleProfiles, SampleAdvisorTopics)

NextDecode == RenderFilter \/ RenderEvolution

SpecDecode == InitDecode /\ [][NextDecode]_vars

(* The manifest: the file is absent, unparseable, or an object with any of *)
(* its fields missing                                                       *)

Fraction == [kind |-> "num", num |-> 1, den |-> 8]

NotANumber == [kind |-> "text", num |-> 0, den |-> 1]

SelValue(k, pct) ==
    CASE k = "method" -> "bertopic" [] k = "run" -> "r3" [] k = "trial" -> "t7"
      [] k = "K" -> "20" [] k = "reported_outliers_pct" -> pct

SelDicts ==
    {[k \in S |-> SelValue(k, pct)] :
        S \in SUBSET {"method", "run", "trial", "K", "reported_outliers_pct"},
        pct \in {Fraction, NotANumber}}

YearDicts == {[k \in S |-> IF k = "min" THEN "2015" ELSE "2023"] : S \in SUBSET {"min", "max"}}

CorpDicts ==
    {[k \in S |-> IF k = "n_docs" THEN "120" ELSE yrs] :
        S \in SUBSET {"n_docs", "years"}, yrs \in YearDicts}

ManifestJsons ==
    {[k \in S |-> CASE k = "generated_at" -> "2024-05-01"
                    [] k = "selection" -> sel
                    [] k = "corpus" -> corp] :
        S \in SUBSET {"generated_at", "selection", "corpus"},
        sel \in SelDicts, corp \in CorpDicts}

ManifestFiles ==
    {NoManifest, [exists |-> TRUE, parses |-> FALSE, json |-> EmptyDict]}
    \cup {[exists |-> TRUE, parses |-> TRUE, json |-> j] : j \in ManifestJsons}

InitManifest ==
    /\ Fresh
    /\ present = Names \ {TopicsCurrentFile}
    /\ files = SampleExport
    /\ acceptsCase = TRUE
    /\ manifestFile \in ManifestFiles

NextManifest == RenderOverview

SpecManifest == InitManifest /\ [][NextManifest]_vars

(* The five pages over exports with and without documents and with unique *)
(* and shared advisor names                                                *)

InitPages ==
    /\ TablesOnly
    /\ acceptsCase = TRUE
    /\ \E docs \in {<<>>, SampleDocs},
          prs \in {SampleProfiles,
                   <<Profile(1, <<"A", "n", "a">>, 1), Profile(2, <<"A", "n", "a">>, 2)>>},
          trs \in TrendTables :
          files = Export(docs, SampleTopics, SampleDocTopics, trs, prs, SampleAdvisorTopics)

NextPages ==
    \/ RenderOverview
    \/ RenderSearch
    \/ RenderFilter
    \/ RenderProfile
    \/ RenderEvolution

SpecPages == InitPages /\ [][NextPages]_vars

----------------------------------------------------------------------------
(* The claims *)

\* the table the process holds under name once load_parquet returned it
Loaded(name) == cache[CacheIndex(cache, name)].value

\* the last render was the Overview page and reached its metrics
OverviewRan == out.page = Pages[1] /\ "temas" \in DOMAIN out.view

\* C1: on the Overview page the displayed topic count equals the number of
\* rows of the loaded topics table whose topic id is not -1.
TopicCountExcludesOutlier ==
    OverviewRan =>
        out.view.temas
            = Len(SelectSeq(Loaded(TopicsTableName), LAMBDA r : r.topic # OutlierTopic))

\* C3: when the documents table has zero rows, the Overview render runs to
\* its end without raising: the period metric shows the dash and the outlier
\* count, its percentage, the top topics and the year counts are all rendered.
ZeroDocsOverviewRenders ==
    (OverviewRan /\ out.view.total = 0) =>
        /\ out.error = ""
        /\ out.view.period = Dash
        /\ {"out_count", "outliers", "top_share", "by_year"} \subseteq DOMAIN out.view

\* the number of times row x occurs in s
Occurrences(s, x) == Cardinality({i \in 1..Len(s) : s[i] = x})

\* a and b hold the same rows the same number of times
SameRows(a, b) ==
    \A x \in Range(a) \cup Range(b) : Occurrences(a, x) = Occurrences(b, x)

\* the last render was the Advisor profile page with a name selected
ProfileRan == out.page = Pages[4] /\ "choice" \in DOMAIN out.view

\* C2: on the Advisor profile page, for every selected name that occurs in
\* the advisor profiles table (a name shared by several rows with different
\* ids included), the name resolves to the id of the first matching row and
\* the profile record, theses and topic distribution are rendered for that
\* id without an error.
SharedNameResolvesToFirst ==
    ProfileRan =>
        LET hits == SelectSeq(Loaded(AdvisorProfilesFile),
                              LAMBDA r : r.orientador_nome = out.view.choice)
        IN  /\ hits # <<>>
            /\ out.error = ""
            /\ out.view.oid = hits[1].orientador_id
            /\ out.view.perfil.orientador_id = out.view.oid
            /\ \A i \in 1..Len(out.view.tccs) : out.view.tccs[i].orientador_id = out.view.oid
            /\ \A i \in 1..Len(out.view.dist) : out.view.dist[i].orientador_id = out.view.oid

\* the last render was the Search advisors page with the query q typed
SearchRan == out.page = Pages[2] /\ "q" \in DOMAIN out.view

\* name contains q as literal text, letters compared without their case
ContainsLiteral(name, q) ==
    \E i \in 0..(Len(name) - Len(q)) :
        \A j \in 1..Len(q) : q[j] # "." /\ Lower(q[j]) = Lower(name[i + j])

\* C6: advisor search returns all profiles for the empty query and, for a
\* non-empty query q, exactly the profiles whose name contains q as a
\* case-insensitive literal substring; the table is sorted by thesis count
\* descending and the displayed count is the number of rows returned.
SearchIsLiteralSubstring ==
    SearchRan =>
        /\ out.error = ""
        /\ SameRows(out.view.table,
                    SelectSeq(Loaded(AdvisorProfilesFile),
                              LAMBDA r : out.view.q = <<>>
                                         \/ ContainsLiteral(r.orientador_nome, out.view.q)))
        /\ \A i \in 1..(Len(out.view.table) - 1) :
              out.view.table[i].n_tccs >= out.view.table[i + 1].n_tccs
        /\ out.view.count = Len(out.view.table)

\* C10: in every render cycle exactly one of the five page pathways runs, the
\* table loading and the join run before it and the footer after it whatever
\* the page, and the loaded tables are unchanged after the render.
RenderRunsOnePathwayThenFooter ==
    out.page # "" =>
        /\ out.stages = <<"sidebar", "load", "join", out.page, "footer">>
        /\ \A i \in 1..Len(cache) : cache[i].value = files[cache[i].name]

\* the last render was the Filter by topic page with a topic to select
FilterRan ==
    out.page = Pages[3] /\ "options" \in DOMAIN out.view /\ out.view.options # <<>>

\* the last render was the Topic evolution page with topics picked
EvolutionRan ==
    out.page = Pages[5] /\ "picks" \in DOMAIN out.view /\ out.view.picks # <<>>

\* C4: decoding the display string "[t] l" gives back exactly t, for every
\* topic id t (-1 included) and every label l (labels holding "[" or "]"
\* included), on the Filter by topic page and on the Topic evolution page.
DecodeInvertsFormat ==
    /\ FilterRan =>
          /\ out.error = ""
          /\ out.view.sel_topic = out.view.options[out.view.choice].topic
    /\ EvolutionRan =>
          /\ out.error = ""
          /\ \A k \in 1..Len(out.view.picks) :
                out.view.sel_topics[k] = out.view.options[out.view.picks[k]].topic

\* C4 happens: topic -1 with a label holding a bracket was picked on the
\* Topic evolution page and decoded to -1
DecodedBracketLabel ==
    /\ EvolutionRan
    /\ out.error = ""
    /\ \E k \in 1..Len(out.view.picks) :
          /\ out.view.sel_topics[k] = -1
          /\ \E i \in 5..Len(out.view.options[out.view.picks[k]].display) :
                out.view.options[out.view.picks[k]].display[i] \in {"[", "]"}

\* C9: on the Filter by topic page, for every selectable topic id (-1
\* included) the result table holds exactly the DocumentWithTopic rows of
\* that topic, ordered by year ascending and within a year by probability
\* descending; the notice is shown instead of the chart exactly when the
\* trends table has no row of the topic, and nothing is raised.
FilterShowsTopicRows ==
    FilterRan =>
        /\ out.error = ""
        /\ out.view.sel_topic = out.view.options[out.view.choice].topic
        /\ SameRows(out.view.subset,
                    SelectSeq(out.dwt, LAMBDA r : r.topic = out.view.sel_topic))
        /\ \A i \in 1..(Len(out.view.subset) - 1) :
              \/ out.view.subset[i].ano < out.view.subset[i + 1].ano
              \/ /\ out.view.subset[i].ano = out.view.subset[i + 1].ano
                 /\ out.view.subset[i].prob >= out.view.subset[i + 1].prob
        /\ (out.view.shown = "info")
              <=> (\A i \in 1..Len(Loaded(TrendsFile)) :
                      Loaded(TrendsFile)[i].topic # out.view.sel_topic)
        /\ out.view.shown \in {"info", "chart"}

\* C9 happens: topic -1 was selected, its two theses of one year came out
\* with the higher probability first though stored last, and the notice was
\* shown for want of a trend row
FilteredOutlierTopic ==
    /\ FilterRan
    /\ out.error = ""
    /\ out.view.sel_topic = -1
    /\ Len(out.view.subset) = 2
    /\ out.view.subset[1].ano = out.view.subset[2].ano
    /\ out.view.subset[1].prob > out.view.subset[2].prob
    /\ Loaded(DocTopicsFile)[1].prob < Loaded(DocTopicsFile)[2].prob
    /\ out.view.shown = "info"

\* the last render reached the join
JoinRan == out.page # "" /\ Len(out.stages) >= 3 /\ out.stages[3] = "join"

\* column col is a key of table s: no value of it occurs in two rows
IsKey(s, col) == \A i, j \in 1..Len(s) : s[i][col] = s[j][col] => i = j

\* the DocumentTopic rows that have a Document row
MatchedDocTopics ==
    SelectSeq(Loaded(DocTopicsFile),
              LAMBDA r : \E j \in 1..Len(Loaded(DocsFile)) :
                            Loaded(DocsFile)[j].DOC_ID = r.DOC_ID)

\* the DocumentTopic columns of the view's rows
ViewDocTopics ==
    [k \in 1..Len(out.dwt) |->
        [DOC_ID |-> out.dwt[k].DOC_ID, topic |-> out.dwt[k].topic, prob |-> out.dwt[k].prob]]

\* each DocumentTopic row with a Document row is in the view exactly once, no
\* other row is, and a row carries the label of its Topic row, the null label
\* when it has none
ViewIsMatchedRowsOnce ==
    /\ Len(out.dwt) = Len(MatchedDocTopics)
    /\ SameRows(ViewDocTopics, MatchedDocTopics)
    /\ \A k \in 1..Len(out.dwt) :
          /\ \E j \in 1..Len(Loaded(DocsFile)) :
                /\ Loaded(DocsFile)[j].DOC_ID = out.dwt[k].DOC_ID
                /\ Loaded(DocsFile)[j].ano = out.dwt[k].ano
                /\ Loaded(DocsFile)[j].orientador_id = out.dwt[k].orientador_id
          /\ IF \E j \in 1..Len(Loaded(TopicsTableName)) :
                   Loaded(TopicsTableName)[j].topic = out.dwt[k].topic
             THEN \E j \in 1..Len(Loaded(TopicsTableName)) :
                     /\ Loaded(TopicsTableName)[j].topic = out.dwt[k].topic
                     /\ Loaded(TopicsTableName)[j].label = out.dwt[k].label
             ELSE out.dwt[k].label = NullText

\* C5 as stated: the DocumentWithTopic view has as many rows as there are
\* DocumentTopic rows with a matching Document row; a row without a Document
\* is dropped, a row without a Topic row is kept once with an empty label, and
\* no DocumentTopic row is duplicated by the topic join.
ViewRowCountIsMatchedCount == JoinRan => ViewIsMatchedRowsOnce

\* C5 amended: the same, provided DOC_ID is a key of the documents table and
\* topic is a key of the topics table.
ViewRowCountIsMatchedCountForKeys ==
    (JoinRan /\ IsKey(Loaded(DocsFile), "DOC_ID") /\ IsKey(Loaded(TopicsTableName), "topic"))
        => ViewIsMatchedRowsOnce

\* C5 happens: with keys unique, of two DocumentTopic rows the one without a
\* Document was dropped and the other was kept with the null label
ViewDroppedAndKeptUnlabelled ==
    /\ JoinRan
    /\ IsKey(Loaded(DocsFile), "DOC_ID")
    /\ IsKey(Loaded(TopicsTableName), "topic")
    /\ Len(Loaded(DocTopicsFile)) = 2
    /\ Len(out.dwt) = 1
    /\ out.dwt[1].label = NullText

SelectionFields == {"method", "run", "trial", "K", "reported_outliers_pct"}

CorpusFields == {"n_docs", "years.min", "years.max"}

\* field k is in the manifest j (years.min and years.max inside corpus.years)
HasField(j, k) ==
    CASE k = "generated_at" -> k \in DOMAIN j
      [] k \in SelectionFields -> "selection" \in DOMAIN j /\ k \in DOMAIN j["selection"]
      [] k = "n_docs" -> "corpus" \in DOMAIN j /\ k \in DOMAIN j["corpus"]
      [] k = "years.min" -> /\ "corpus" \in DOMAIN j
                            /\ "years" \in DOMAIN j["corpus"]
                            /\ "min" \in DOMAIN j["corpus"]["years"]
      [] k = "years.max" -> /\ "corpus" \in DOMAIN j
                            /\ "years" \in DOMAIN j["corpus"]
                            /\ "max" \in DOMAIN j["corpus"]["years"]

\* the sidebar has a line for each field of ks: the dash exactly when the field
\* is missing (reported_outliers_pct also when it is no number)
LinesFor(j, ks) ==
    /\ ks \subseteq DOMAIN out.sidebar.lines
    /\ \A k \in ks :
          /\ ~HasField(j, k) => out.sidebar.lines[k] = Dash
          /\ (HasField(j, k) /\ out.sidebar.lines[k] = Dash) =>
                (k = "reported_outliers_pct" /\ j["selection"][k].kind # "num")

\* the manifest is absent or unparseable: load_manifest gave the empty record
\* and the sidebar shows the "manifest not found" placeholder
NotFoundShown ==
    (~manifestFile.exists \/ ~manifestFile.parses) =>
        /\ manifestCache = <<EmptyDict>>
        /\ ~out.sidebar.found
        /\ DOMAIN out.sidebar.lines = {}

\* the render got past the sidebar
SidebarDone == Len(out.stages) >= 2 /\ out.stages[1] = "sidebar" /\ out.stages[2] = "load"

\* C8 as stated: an absent or unparseable manifest gives the empty record and
\* the "manifest not found" placeholder; for every manifest that parses, with
\* any subset of generated_at, selection.* and corpus.* missing, the sidebar
\* renders a line per field with a dash for each missing one, never raising.
DashPerMissingField ==
    out.page # "" =>
        /\ SidebarDone
        /\ NotFoundShown
        /\ (manifestFile.exists /\ manifestFile.parses) =>
              /\ out.sidebar.found
              /\ LinesFor(manifestFile.json, {"generated_at"} \cup SelectionFields \cup CorpusFields)

\* C8 amended: the same, except that a manifest that parses to an empty
\* object shows the "manifest not found" placeholder, and that the selection
\* lines are written only when selection is present and not empty (dashes
\* then stand for its missing fields); generated_at and the corpus fields get
\* a dash each when missing.
DashPerMissingFieldOfShownBlocks ==
    out.page # "" =>
        /\ SidebarDone
        /\ NotFoundShown
        /\ (manifestFile.exists /\ manifestFile.parses) =>
              IF DOMAIN manifestFile.json = {}
              THEN ~out.sidebar.found /\ DOMAIN out.sidebar.lines = {}
              ELSE /\ out.sidebar.found
                   /\ LinesFor(manifestFile.json, {"generated_at"} \cup CorpusFields)
                   /\ IF \E k \in SelectionFields : HasField(manifestFile.json, k)
                      THEN LinesFor(manifestFile.json, SelectionFields)
                      ELSE DOMAIN out.sidebar.lines \cap SelectionFields = {}

\* C8 happens: a manifest that parses, without selection and without
\* corpus.n_docs, was rendered with no selection line and a dash for n_docs
RenderedWithoutSelection ==
    /\ out.page # ""
    /\ manifestFile.exists /\ manifestFile.parses
    /\ "generated_at" \in DOMAIN manifestFile.json
    /\ ~HasField(manifestFile.json, "n_docs")
    /\ "selection" \notin DOMAIN manifestFile.json
    /\ out.sidebar.found
    /\ DOMAIN out.sidebar.lines = {"generated_at"} \cup CorpusFields
    /\ out.sidebar.lines["n_docs"] = Dash

====
